---- MODULE Spec2Model ----
(***************************************************************************)
(* Model of programs/multisig/src/lib.rs: one Multisig account (the        *)
(* Authority Group), the Transaction accounts (Proposals) created against  *)
(* it, and the instruction handlers create_multisig, set_owners,           *)
(* change_threshold, change_delay, create_transaction, approve and         *)
(* execute_transaction.                                                    *)
(*                                                                         *)
(* The Multisig account lives at a program-derived address, so the         *)
(* `signer` constraint of SetOwners / ChangeThreshold / ChangeDelay can    *)
(* only be met by the invoke_signed call of execute_transaction (lines     *)
(* 278-299): these three handlers are reached through the dispatch of a    *)
(* Transaction's instructions, never as a top-level call.                  *)
(*                                                                         *)
(* A handler that returns Err aborts the whole host transaction: none of   *)
(* its writes, and none of the writes of the calls it made, are kept.  A   *)
(* failed call therefore leaves no trace in the state; what a call returns *)
(* is the err field of the value of its handler in the state it is made.   *)
(*                                                                         *)
(* The constraint has_one = multisig of Approve and ExecuteTransaction     *)
(* holds of every Transaction here, all created against the one Multisig.  *)
(***************************************************************************)
EXTENDS Integers, Sequences, FiniteSets, TLC

(***************************************************************************)
(* Bounds of the model.                                                    *)
(***************************************************************************)
MaxTime == 1          \* largest value of Clock::unix_timestamp (starts at 0)
MaxInvokeDepth == 3   \* nesting of program invocations the host allows
MaxIxs == 9           \* instructions of a Transaction whose size is computed

(***************************************************************************)
(* Identities and inputs.                                                  *)
(***************************************************************************)
Keys == {"A", "B"}
\* Pubkey::default(), the value of Transaction.executor before execution
NoKey == "none"

\* owner lists passed to create_multisig
OwnerLists ==
    { <<"A">>, <<"A", "B">>, <<"A", "A">> }
\* owner lists passed to set_owners
NewOwnerLists == { <<"B">>, <<"B", "A">> }
\* thresholds passed to create_multisig (u64)
Thresholds == 0..2
\* delays passed to create_multisig (i64)
Delays == {0, 1}

\* MAX delay accepted by change_delay: 30 days in seconds
MAX_DELAY == 30 * 24 * 3600
\* grace_period written by create_multisig: 14 days in seconds
GRACE_PERIOD == 14 * 24 * 3600

(***************************************************************************)
(* TransactionInstruction values.  An instruction either targets another   *)
(* program ("ext": the host decides whether it succeeds) or this program   *)
(* itself, signed by the multisig's derived address.                       *)
(***************************************************************************)
Ix(kind, owners, n) == [kind |-> kind, owners |-> owners, n |-> n]
ExtIx == Ix("ext", <<>>, 0)
SetOwnersIx(owners) == Ix("set_owners", owners, 0)
ChangeThresholdIx(t) == Ix("change_threshold", <<>>, t)
ChangeDelayIx(d) == Ix("change_delay", <<>>, d)
\* a nested execute_transaction on the Transaction account of seed index n
ExecuteIx(n) == Ix("execute_transaction", <<>>, n)

\* seed indices (multisig.num_transactions at creation) of the Transaction
\* accounts the runs create
TxSeeds == {0, 1}

\* instruction vectors passed to create_transaction
Batches ==
    { <<ExtIx>>, <<ChangeThresholdIx(1), ExtIx>> }
    \cup { <<SetOwnersIx(l)>> : l \in NewOwnerLists }
    \cup { <<ExecuteIx(0)>> }

\* which instruction position of a batch the host lets an external program
\* fail at (0: every external call succeeds)
HostFailures == {0, 1, 2}

VARIABLES
    multisig,     \* the Multisig account
    txs,          \* the Transaction accounts; txs[i] has seed index i - 1
    clock,        \* Clock::get()?.unix_timestamp, an i64 the host supplies
    approvers,    \* history: per Transaction, who called create_transaction/approve
    dispatched,   \* history: per Transaction, committed dispatches of its
                  \* instructions, counted 0, 1, 2 (2: more than once)
    execInfo      \* history: per Transaction, what its last execution was checked against

vars == <<multisig, txs, clock, approvers, dispatched, execInfo>>

(***************************************************************************)
(* Helpers on vectors.                                                     *)
(***************************************************************************)
Range(s) == { s[i] : i \in 1..Len(s) }

\* iter().position(|a| a == key): 0 stands for None, otherwise the 1-based index
Position(s, key) ==
    IF key \in Range(s)
    THEN CHOOSE i \in 1..Len(s) : s[i] = key /\ \A j \in 1..(i - 1) : s[j] # key
    ELSE 0

\* tx.signers.iter().filter(|&signed| *signed).count()
SigCount(signers) == Cardinality({ i \in 1..Len(signers) : signers[i] })

(***************************************************************************)
(* Account values.                                                         *)
(***************************************************************************)
\* the zero-filled account that `init` hands to create_multisig
NoMultisig ==
    [ exists |-> FALSE, threshold |-> 0, delay |-> 0, grace_period |-> 0,
      num_transactions |-> 0, owners_seq_no |-> 0, owners |-> <<>> ]

\* the zero-filled account that `init` hands to create_transaction
ZeroTransaction ==
    [ index |-> 0, eta |-> 0, owners_seq_no |-> 0, proposer |-> NoKey,
      instructions |-> <<>>, signers |-> <<>>, executor |-> NoKey,
      executed_at |-> 0 ]

\* history record of a Transaction that was never executed
NoExecInfo ==
    [ set |-> FALSE, executor |-> NoKey, now |-> 0, eta |-> 0, owners |-> <<>>,
      threshold |-> 0, ms_seq_no |-> 0, tx_seq_no |-> 0, signers |-> <<>>,
      approvers |-> {} ]

\* what a handler returns: an error code ("Ok" for Ok(())) and the accounts
\* as it leaves them; on an error the accounts are the ones it was given
Ret(err, c) == [err |-> err, c |-> c]

(***************************************************************************)
(* require_unique_owners: sort, dedup, compare the lengths.                *)
(***************************************************************************)
\* require_unique_owners that calls dedup() on the unsorted list: only a key
\* that repeats the one before it is found
require_unique_owners_Unsorted(owners) ==
    \A i \in 1..(Len(owners) - 1) : owners[i] # owners[i + 1]

require_unique_owners(owners) == Len(owners) = Cardinality(Range(owners))

(***************************************************************************)
(* Group management handlers, on the chain state                           *)
(* c = [ms, txs, approvers, dispatched, execInfo].                         *)
(* The checked_add(1) of owners_seq_no and num_transactions fails only at  *)
(* u64::MAX, which no counter reaches in the runs modelled here.           *)
(***************************************************************************)
create_multisig(c, owners, threshold, delay) ==
    IF ~require_unique_owners(owners) THEN Ret("UniqueOwners", c)
    ELSE Ret("Ok", [c EXCEPT !.ms = [c.ms EXCEPT !.exists = TRUE,
                                                 !.threshold = threshold,
                                                 !.delay = delay,
                                                 !.grace_period = GRACE_PERIOD,
                                                 !.owners = owners]])

\* set_owners that leaves owners_seq_no as it was
set_owners_NoBump(c, owners) ==
    IF ~require_unique_owners(owners) THEN Ret("UniqueOwners", c)
    ELSE Ret("Ok", [c EXCEPT !.ms = [c.ms EXCEPT
            !.threshold = IF Len(owners) < c.ms.threshold THEN Len(owners) ELSE @,
            !.owners = owners]])

\* set_owners that leaves the threshold as it was
set_owners_NoClamp(c, owners) ==
    IF ~require_unique_owners(owners) THEN Ret("UniqueOwners", c)
    ELSE Ret("Ok", [c EXCEPT !.ms = [c.ms EXCEPT
            !.owners = owners,
            !.owners_seq_no = @ + 1]])

\* set_owners that bumps owners_seq_no only when the list differs from the old one
set_owners_BumpIfChanged(c, owners) ==
    IF ~require_unique_owners(owners) THEN Ret("UniqueOwners", c)
    ELSE Ret("Ok", [c EXCEPT !.ms = [c.ms EXCEPT
            !.threshold = IF Len(owners) < c.ms.threshold THEN Len(owners) ELSE @,
            !.owners = owners,
            !.owners_seq_no = IF owners = c.ms.owners THEN @ ELSE @ + 1]])

set_owners(c, owners) ==
    IF ~require_unique_owners(owners) THEN Ret("UniqueOwners", c)
    ELSE Ret("Ok", [c EXCEPT !.ms = [c.ms EXCEPT
            !.threshold = IF Len(owners) < c.ms.threshold THEN Len(owners) ELSE @,
            !.owners = owners,
            !.owners_seq_no = @ + 1]])

change_threshold(c, threshold) ==
    IF threshold > Len(c.ms.owners) THEN Ret("InvalidThreshold", c)
    ELSE Ret("Ok", [c EXCEPT !.ms.threshold = threshold])

change_delay(c, delay) ==
    IF delay > MAX_DELAY THEN Ret("InvalidDelay", c)
    ELSE Ret("Ok", [c EXCEPT !.ms.delay = delay])

(***************************************************************************)
(* create_transaction and approve.  tx.index is never assigned: it keeps   *)
(* the zero of the fresh account.                                          *)
(***************************************************************************)
\* create_transaction that leaves the proposer's own entry of signers false
create_transaction_NoOwnApproval(c, signer_key, instructions, now) ==
    LET owner_index == Position(c.ms.owners, signer_key)
        signers == [i \in 1..Len(c.ms.owners) |-> FALSE]
        tx == [ZeroTransaction EXCEPT !.eta = now + c.ms.delay,
                                      !.owners_seq_no = c.ms.owners_seq_no,
                                      !.proposer = signer_key,
                                      !.instructions = instructions,
                                      !.signers = signers]
    IN  IF owner_index = 0 THEN Ret("InvalidOwner", c)
        ELSE Ret("Ok", [c EXCEPT !.txs = Append(@, tx),
                                 !.ms.num_transactions = @ + 1,
                                 !.approvers = Append(@, {signer_key}),
                                 !.dispatched = Append(@, 0),
                                 !.execInfo = Append(@, NoExecInfo)])

create_transaction(c, signer_key, instructions, now) ==
    LET owner_index == Position(c.ms.owners, signer_key)
        signers == [i \in 1..Len(c.ms.owners) |-> i = owner_index]
        tx == [ZeroTransaction EXCEPT !.eta = now + c.ms.delay,
                                      !.owners_seq_no = c.ms.owners_seq_no,
                                      !.proposer = signer_key,
                                      !.instructions = instructions,
                                      !.signers = signers]
    IN  IF owner_index = 0 THEN Ret("InvalidOwner", c)
        ELSE Ret("Ok", [c EXCEPT !.txs = Append(@, tx),
                                 !.ms.num_transactions = @ + 1,
                                 !.approvers = Append(@, {signer_key}),
                                 !.dispatched = Append(@, 0),
                                 !.execInfo = Append(@, NoExecInfo)])

\* approve without the comparison of the two owners_seq_no
approve_NoSeqCheck(c, p, signer_key) ==
    LET owner_index == Position(c.ms.owners, signer_key)
    IN  IF owner_index = 0 THEN Ret("InvalidOwner", c)
        ELSE IF owner_index > Len(c.txs[p].signers)
             THEN Ret("IndexOutOfBounds", c)
        ELSE Ret("Ok", [c EXCEPT !.txs[p].signers[owner_index] = TRUE,
                                 !.approvers[p] = @ \cup {signer_key}])

\* approve that flips the signer's entry instead of setting it
approve_Toggle(c, p, signer_key) ==
    LET owner_index == Position(c.ms.owners, signer_key)
    IN  IF owner_index = 0 THEN Ret("InvalidOwner", c)
        ELSE IF c.ms.owners_seq_no # c.txs[p].owners_seq_no
             THEN Ret("OwnersChanged", c)
        ELSE IF owner_index > Len(c.txs[p].signers)
             THEN Ret("IndexOutOfBounds", c)
        ELSE Ret("Ok", [c EXCEPT !.txs[p].signers[owner_index] = ~@,
                                 !.approvers[p] = @ \cup {signer_key}])

approve(c, p, signer_key) ==
    LET owner_index == Position(c.ms.owners, signer_key)
    IN  IF owner_index = 0 THEN Ret("InvalidOwner", c)
        ELSE IF c.ms.owners_seq_no # c.txs[p].owners_seq_no
             THEN Ret("OwnersChanged", c)
        ELSE IF owner_index > Len(c.txs[p].signers)
             THEN Ret("IndexOutOfBounds", c)
        ELSE Ret("Ok", [c EXCEPT !.txs[p].signers[owner_index] = TRUE,
                                 !.approvers[p] = @ \cup {signer_key}])

(***************************************************************************)
(* execute_transaction.  The handler works on its own deserialized copy of *)
(* the Transaction account; the copy is written back when it returns Ok.   *)
(***************************************************************************)
\* ExecuteChecks without the count of the signers against the threshold
ExecuteChecks_NoQuorum(ms, tx, signer_key, now) ==
    IF signer_key \notin Range(ms.owners) THEN "InvalidOwner"
    ELSE IF ~(now >= tx.eta) THEN "BeforeETA"
    ELSE IF ~(tx.executed_at = 0) THEN "AlreadyExecuted"
    ELSE IF ms.owners_seq_no # tx.owners_seq_no THEN "OwnersChanged"
    ELSE "Ok"

\* ExecuteChecks with the owners_seq_no compared before executed_at is read
ExecuteChecks_SeqNoFirst(ms, tx, signer_key, now) ==
    IF signer_key \notin Range(ms.owners) THEN "InvalidOwner"
    ELSE IF ~(now >= tx.eta) THEN "BeforeETA"
    ELSE IF ms.owners_seq_no # tx.owners_seq_no THEN "OwnersChanged"
    ELSE IF ~(tx.executed_at = 0) THEN "AlreadyExecuted"
    ELSE IF SigCount(tx.signers) < ms.threshold THEN "NotEnoughSigners"
    ELSE "Ok"

\* ExecuteChecks that refuses the call made at the eta itself
ExecuteChecks_StrictEta(ms, tx, signer_key, now) ==
    IF signer_key \notin Range(ms.owners) THEN "InvalidOwner"
    ELSE IF ~(now > tx.eta) THEN "BeforeETA"
    ELSE IF ~(tx.executed_at = 0) THEN "AlreadyExecuted"
    ELSE IF ms.owners_seq_no # tx.owners_seq_no THEN "OwnersChanged"
    ELSE IF SigCount(tx.signers) < ms.threshold THEN "NotEnoughSigners"
    ELSE "Ok"

\* ExecuteChecks that asks for more true signers than the threshold
ExecuteChecks_QuorumOffByOne(ms, tx, signer_key, now) ==
    IF signer_key \notin Range(ms.owners) THEN "InvalidOwner"
    ELSE IF ~(now >= tx.eta) THEN "BeforeETA"
    ELSE IF ~(tx.executed_at = 0) THEN "AlreadyExecuted"
    ELSE IF ms.owners_seq_no # tx.owners_seq_no THEN "OwnersChanged"
    ELSE IF SigCount(tx.signers) <= ms.threshold THEN "NotEnoughSigners"
    ELSE "Ok"

\* the constraint of ExecuteTransaction.signer and the require!s of the
\* handler, in the order they run
ExecuteChecks(ms, tx, signer_key, now) ==
    IF signer_key \notin Range(ms.owners) THEN "InvalidOwner"
    ELSE IF ~(now >= tx.eta) THEN "BeforeETA"
    ELSE IF ~(tx.executed_at = 0) THEN "AlreadyExecuted"
    ELSE IF ms.owners_seq_no # tx.owners_seq_no THEN "OwnersChanged"
    ELSE IF SigCount(tx.signers) < ms.threshold THEN "NotEnoughSigners"
    ELSE "Ok"

\* tx.executed_at = now; tx.executor = ctx.accounts.signer.key();
MarkExecuted(tx, signer_key, now) ==
    [tx EXCEPT !.executed_at = now, !.executor = signer_key]

\* DispatchFailed keeping what the instructions before the failing one wrote
DispatchFailed_KeepsWrites(c, d) == Ret(d.err, d.c)

\* invoke_signed(..)? returned Err inside the loop: the handler returns the
\* error and the host drops every write of the transaction
DispatchFailed(c, d) == Ret(d.err, c)

\* history: what the execution of tx by signer_key at `now` was checked against
ExecInfoOf(c, p, signer_key, now) ==
    [ set |-> TRUE, executor |-> signer_key, now |-> now,
      eta |-> c.txs[p].eta, owners |-> c.ms.owners,
      threshold |-> c.ms.threshold, ms_seq_no |-> c.ms.owners_seq_no,
      tx_seq_no |-> c.txs[p].owners_seq_no, signers |-> c.txs[p].signers,
      approvers |-> c.approvers[p] ]

RECURSIVE execute_transaction(_, _, _, _, _, _)
RECURSIVE invoke_signed(_, _, _, _, _, _, _)
RECURSIVE Dispatch(_, _, _, _, _, _, _)

execute_transaction(c, p, signer_key, now, hostFailure, depth) ==
    LET tx == c.txs[p]
        check == ExecuteChecks(c.ms, tx, signer_key, now)
        d == Dispatch(c, tx.instructions, 1, signer_key, now, hostFailure, depth)
    IN  IF check # "Ok" THEN Ret(check, c)
        ELSE IF d.err # "Ok" THEN DispatchFailed(c, d)
        ELSE Ret("Ok", [d.c EXCEPT
                !.txs[p] = MarkExecuted(tx, signer_key, now),
                !.dispatched[p] = IF @ < 2 THEN @ + 1 ELSE @,
                !.execInfo[p] = ExecInfoOf(c, p, signer_key, now)])

\* solana_program::program::invoke_signed(&six, ctx.remaining_accounts, &[seeds])
\* for the i-th instruction of a batch
invoke_signed(c, ix, i, signer_key, now, hostFailure, depth) ==
    IF depth >= MaxInvokeDepth THEN Ret("CallDepth", c)
    ELSE CASE ix.kind = "ext" ->
                IF hostFailure = i THEN Ret("ExternalError", c) ELSE Ret("Ok", c)
           [] ix.kind = "set_owners" -> set_owners(c, ix.owners)
           [] ix.kind = "change_threshold" -> change_threshold(c, ix.n)
           [] ix.kind = "change_delay" -> change_delay(c, ix.n)
           [] ix.kind = "execute_transaction" ->
                IF ix.n + 1 > Len(c.txs) THEN Ret("AccountNotInitialized", c)
                ELSE execute_transaction(c, ix.n + 1, signer_key, now,
                                         hostFailure, depth + 1)

\* for ix in ctx.accounts.transaction.instructions.iter() { invoke_signed(..)?; }
Dispatch(c, instructions, i, signer_key, now, hostFailure, depth) ==
    IF i > Len(instructions) THEN Ret("Ok", c)
    ELSE LET r == invoke_signed(c, instructions[i], i, signer_key, now,
                                hostFailure, depth)
         IN  IF r.err # "Ok" THEN r
             ELSE Dispatch(r.c, instructions, i + 1, signer_key, now,
                           hostFailure, depth)

(***************************************************************************)
(* The state machine.  Chain packs the accounts (and their history) a      *)
(* handler works on; a top-level call commits what the handler returns,    *)
(* which on an error is what it was given.                                 *)
(***************************************************************************)
Chain ==
    [ ms |-> multisig, txs |-> txs, approvers |-> approvers,
      dispatched |-> dispatched, execInfo |-> execInfo ]

Commit(r) ==
    /\ multisig' = r.c.ms
    /\ txs' = r.c.txs
    /\ approvers' = r.c.approvers
    /\ dispatched' = r.c.dispatched
    /\ execInfo' = r.c.execInfo

Init ==
    /\ multisig = NoMultisig
    /\ txs = <<>>
    /\ clock = 0
    /\ approvers = <<>>
    /\ dispatched = <<>>
    /\ execInfo = <<>>

\* the `init` constraint of CreateMultisig: the account is created once
CreateMultisig(owners, threshold, delay) ==
    /\ ~multisig.exists
    /\ Commit(create_multisig(Chain, owners, threshold, delay))
    /\ UNCHANGED clock

\* the `init` constraint of CreateTransaction: a new account at the address
\* derived from multisig.num_transactions
CreateTransaction(signer_key, instructions) ==
    /\ multisig.exists
    /\ multisig.num_transactions \in TxSeeds
    /\ Commit(create_transaction(Chain, signer_key, instructions, clock))
    /\ UNCHANGED clock

Approve(signer_key, p) ==
    /\ p \in 1..Len(txs)
    /\ Commit(approve(Chain, p, signer_key))
    /\ UNCHANGED clock

ExecuteTransaction(signer_key, p, hostFailure) ==
    /\ p \in 1..Len(txs)
    /\ Commit(execute_transaction(Chain, p, signer_key, clock, hostFailure, 1))
    /\ UNCHANGED clock

\* the host clock advances
Tick ==
    /\ clock < MaxTime
    /\ clock' = clock + 1
    /\ UNCHANGED <<multisig, txs, approvers, dispatched, execInfo>>

Next ==
    \/ \E owners \in OwnerLists, threshold \in Thresholds, delay \in Delays :
            CreateMultisig(owners, threshold, delay)
    \/ \E k \in Keys, b \in Batches : CreateTransaction(k, b)
    \/ \E k \in Keys, p \in 1..Cardinality(TxSeeds) : Approve(k, p)
    \/ \E k \in Keys, p \in 1..Cardinality(TxSeeds), f \in HostFailures :
            ExecuteTransaction(k, p, f)
    \/ Tick

Spec == Init /\ [][Next]_vars

(***************************************************************************)
(* The same handlers under the inputs of the group-management claims:      *)
(* owner lists that are empty or repeat a key, delays on both sides of the *)
(* range 0..MAX_DELAY, and Transactions that carry set_owners,             *)
(* change_threshold and change_delay to the multisig.                      *)
(***************************************************************************)
\* owner lists passed to create_multisig
GovOwnerLists == { <<"A">>, <<"A", "B">>, <<"B", "B">> }
\* owner lists passed to set_owners
GovNewOwnerLists == { <<>>, <<"B">>, <<"A", "B">>, <<"A", "A">> }
\* thresholds passed to create_multisig and change_threshold (u64)
GovThresholds == {1, 2}
\* delays passed to create_multisig (i64)
GovDelays == {-1, 1, MAX_DELAY + 1}
\* delays passed to change_delay (i64)
GovNewDelays == {-1, MAX_DELAY + 1}

GovBatches ==
    { <<ExtIx>>, <<ChangeThresholdIx(2)>> }
    \cup { <<SetOwnersIx(l)>> : l \in GovNewOwnerLists }
    \cup { <<ChangeDelayIx(d)>> : d \in GovNewDelays }

GovNext ==
    \/ \E owners \in GovOwnerLists, threshold \in GovThresholds, delay \in GovDelays :
            CreateMultisig(owners, threshold, delay)
    \/ \E k \in Keys, b \in GovBatches : CreateTransaction(k, b)
    \/ \E k \in Keys, p \in 1..Cardinality(TxSeeds) : Approve(k, p)
    \/ \E k \in Keys, p \in 1..Cardinality(TxSeeds) : ExecuteTransaction(k, p, 0)
    \/ Tick

GovSpec == Init /\ [][GovNext]_vars

(***************************************************************************)
(* The size of a Transaction account.  CreateTransaction allocates the     *)
(* account with space = transaction_space(instructions); when the handler  *)
(* returns Ok the account is serialized into it: the 8-byte discriminator, *)
(* then the fields in declaration order, a Vec as a 4-byte length followed *)
(* by its elements, a bool as one byte.  An instruction is given here by   *)
(* what its size depends on: the number of its keys and of its data bytes. *)
(* The vectors of Batches and GovBatches hold one or two instructions and  *)
(* fit their accounts: CreateTransaction above does not size them.         *)
(***************************************************************************)
SizedIx(keys, data) == [kind |-> "ext", keys |-> keys, data |-> data]

\* numbers of keys and of data bytes of the instructions sized
IxKeys == {0, 1}
IxData == {0, 1}

\* instruction vectors whose instructions are all of one shape
SizedBatches ==
    { [i \in 1..m |-> SizedIx(keys, data)] :
            m \in 0..MaxIxs, keys \in IxKeys, data \in IxData }

\* owner lists of the multisigs the sized Transactions are created for
SizedOwnerLists == { <<"A">>, <<"A", "B">> }

\* std::mem::size_of::<Pubkey>(): a [u8; 32]
SizeOfPubkey == 32
\* std::mem::size_of::<TransactionInstructionMeta>(): a Pubkey and two bools
SizeOfMeta == 32 + 1 + 1
\* std::mem::size_of::<Transaction>(): three Pubkeys, four 8-byte integers,
\* a u8, two Vecs of 24 bytes and [u64; 16], rounded up to the alignment of 8
SizeOfTransaction ==
    (((3 * 32 + 4 * 8 + 1 + 2 * 24 + 16 * 8) + 7) \div 8) * 8

RECURSIVE InstructionsSpace(_)
\* the loop of transaction_space
InstructionsSpace(instructions) ==
    IF instructions = <<>> THEN 0
    ELSE SizeOfPubkey + Head(instructions).keys * SizeOfMeta
            + Head(instructions).data
            + InstructionsSpace(Tail(instructions))

transaction_space(instructions) ==
    4 + SizeOfTransaction + 4 + 15 + 4 + InstructionsSpace(instructions)

\* serialized TransactionInstruction: program_id, keys, data
InstructionLen(ix) == 32 + (4 + ix.keys * (32 + 1 + 1)) + (4 + ix.data)

RECURSIVE InstructionsLen(_)
InstructionsLen(instructions) ==
    IF instructions = <<>> THEN 0
    ELSE InstructionLen(Head(instructions)) + InstructionsLen(Tail(instructions))

\* serialized Transaction account: discriminator, multisig, index, bump, eta,
\* owners_seq_no, proposer, instructions, signers, executor, executed_at,
\* _reserved
TransactionLen(tx) ==
    8 + 32 + 8 + 1 + 8 + 8 + 32
      + (4 + InstructionsLen(tx.instructions))
      + (4 + Len(tx.signers))
      + 32 + 8 + 16 * 8

\* create_transaction on an account of transaction_space(instructions) bytes:
\* the call fails when the handler does or when the account it leaves does
\* not fit the space allocated
create_transaction_account(c, signer_key, instructions, now) ==
    LET r == create_transaction(c, signer_key, instructions, now)
    IN  IF r.err # "Ok" THEN r
        ELSE IF TransactionLen(r.c.txs[Len(r.c.txs)]) > transaction_space(instructions)
             THEN Ret("AccountDidNotSerialize", c)
        ELSE r

CreateSizedTransaction(signer_key, instructions) ==
    /\ multisig.exists
    /\ multisig.num_transactions \in TxSeeds
    /\ Commit(create_transaction_account(Chain, signer_key, instructions, clock))
    /\ UNCHANGED clock

SpaceNext ==
    \/ \E owners \in SizedOwnerLists : CreateMultisig(owners, 1, 0)
    \/ \E k \in Keys, b \in SizedBatches : CreateSizedTransaction(k, b)

SpaceSpec == Init /\ [][SpaceNext]_vars

(***************************************************************************)
(* Properties.                                                             *)
(***************************************************************************)
Txs == 1..Len(txs)

\* C1: every execution of a Transaction that was committed ran in a call
\* whose executor was one of the multisig's owners at that moment, at a time
\* not before tx.eta, with the multisig's owners_seq_no equal to the
\* Transaction's, and with at least `threshold` true entries in tx.signers,
\* each true entry standing at the position of a distinct owner who had
\* called create_transaction or approve on it; and nothing was dispatched
\* for a Transaction without such a call.
C1_ExecuteOnlyWhenAuthorized ==
    \A p \in Txs :
        LET e == execInfo[p]
            signed == { i \in 1..Len(e.signers) : e.signers[i] }
        IN  /\ dispatched[p] > 0 => e.set
            /\ e.set =>
                /\ e.executor \in Range(e.owners)
                /\ e.now >= e.eta
                /\ e.ms_seq_no = e.tx_seq_no
                /\ Cardinality(signed) >= e.threshold
                /\ \A i \in signed :
                        /\ i <= Len(e.owners)
                        /\ e.owners[i] \in e.approvers
                        /\ \A j \in signed : e.owners[j] = e.owners[i] => j = i

\* C1 witness: a Transaction executed under a threshold of 2 with the
\* approvals of two owners, by an owner
C1_Witness ==
    \E p \in Txs :
        /\ dispatched[p] = 1
        /\ execInfo[p].threshold = 2
        /\ SigCount(execInfo[p].signers) = 2
        /\ execInfo[p].approvers = {"A", "B"}

\* C2: each Transaction is executed at most once: its instructions are
\* dispatched at most once, whatever the clock returns and whoever repeats
\* the call.
C2_ExecutedAtMostOnce == \A p \in Txs : dispatched[p] <= 1

\* set_owners ran after the Transaction was created: the multisig's
\* owners_seq_no has moved on from the one copied into the Transaction
Stale(p) == multisig.owners_seq_no # txs[p].owners_seq_no

ApproveResult(k, p) == approve(Chain, p, k).err
ExecuteResult(k, p, f) == execute_transaction(Chain, p, k, clock, f, 1).err

\* C3 as stated: once set_owners has run after a Transaction's creation,
\* every approve and every execute_transaction on it returns OwnersChanged.
C3_StaleAlwaysOwnersChanged ==
    \A p \in Txs, k \in Keys, f \in HostFailures :
        Stale(p) =>
            /\ ApproveResult(k, p) = "OwnersChanged"
            /\ ExecuteResult(k, p, f) = "OwnersChanged"

\* C3 amended: once set_owners has run after a Transaction's creation, the
\* Transaction stays stale and is never changed again, and every approve and
\* every execute_transaction on it fails: with OwnersChanged when the checks
\* that run before the comparison of the sequence numbers pass, otherwise
\* with the error of the first of those checks that fails.
C3_StaleNeverApprovedNorExecuted ==
    /\ [](\A p \in Txs, k \in Keys, f \in HostFailures :
            Stale(p) =>
                /\ ApproveResult(k, p) =
                        IF k \notin Range(multisig.owners) THEN "InvalidOwner"
                        ELSE "OwnersChanged"
                /\ ExecuteResult(k, p, f) =
                        IF k \notin Range(multisig.owners) THEN "InvalidOwner"
                        ELSE IF clock < txs[p].eta THEN "BeforeETA"
                        ELSE IF txs[p].executed_at # 0 THEN "AlreadyExecuted"
                        ELSE "OwnersChanged")
    /\ [][\A p \in Txs :
            Stale(p) => /\ multisig'.owners_seq_no # txs'[p].owners_seq_no
                        /\ txs'[p] = txs[p]
                        /\ dispatched'[p] = dispatched[p]]_vars

\* C3 witness: a Transaction that is stale, not executed and past its eta,
\* on which approve and execute_transaction by an owner return OwnersChanged
\* and approve by a key that is no longer an owner returns InvalidOwner
C3_Witness ==
    \E p \in Txs :
        /\ Stale(p)
        /\ dispatched[p] = 0
        /\ clock >= txs[p].eta
        /\ \E k \in Range(multisig.owners) :
                /\ ApproveResult(k, p) = "OwnersChanged"
                /\ ExecuteResult(k, p, 0) = "OwnersChanged"
        /\ \E k \in Keys : ApproveResult(k, p) = "InvalidOwner"

\* C4: the threshold of an existing multisig never exceeds the number of
\* its owners.
C4_ThresholdAtMostOwners ==
    multisig.exists => multisig.threshold <= Len(multisig.owners)

\* C5: the threshold of an existing multisig is at least 1.
C5_ThresholdAtLeastOne ==
    multisig.exists => multisig.threshold >= 1

\* C6: the index of every Transaction is the multisig's num_transactions at
\* the moment it was created (txs[p] is the account created at count p - 1),
\* so no two Transactions have the same index; num_transactions counts the
\* Transactions created.
C6_IndexIsCountAtCreation ==
    /\ multisig.num_transactions = Len(txs)
    /\ \A p \in Txs : txs[p].index = p - 1
    /\ \A p, q \in Txs : txs[p].index = txs[q].index => p = q

\* C7: once a Transaction has been executed (executed_at is set) no step
\* changes any of its fields, the signers included; and no step ever changes
\* its index, eta, owners_seq_no, proposer or instructions.
C7_ImmutableOnceExecuted ==
    [][\A p \in Txs :
            /\ txs[p].executed_at # 0 => txs'[p] = txs[p]
            /\ txs'[p].index = txs[p].index
            /\ txs'[p].eta = txs[p].eta
            /\ txs'[p].owners_seq_no = txs[p].owners_seq_no
            /\ txs'[p].proposer = txs[p].proposer
            /\ txs'[p].instructions = txs[p].instructions]_vars

\* the preconditions of execute_transaction that the call by k on p violates
NotOwner(k) == k \notin Range(multisig.owners)
BeforeEta(p) == clock < txs[p].eta
ExecutedAtSet(p) == txs[p].executed_at # 0
BelowThreshold(p) == SigCount(txs[p].signers) < multisig.threshold

\* C8: execute_transaction returns the error of the first violated
\* precondition in the order owner, eta, executed_at, owners_seq_no,
\* threshold, whatever else is violated; when no precondition is violated it
\* returns what the dispatch of the instructions returns; and a failing call
\* leaves the accounts and the history of dispatches as they were.
C8_FirstFailureWins ==
    \A p \in Txs, k \in Keys, f \in HostFailures :
        LET r == execute_transaction(Chain, p, k, clock, f, 1)
        IN  /\ r.err =
                IF NotOwner(k) THEN "InvalidOwner"
                ELSE IF BeforeEta(p) THEN "BeforeETA"
                ELSE IF ExecutedAtSet(p) THEN "AlreadyExecuted"
                ELSE IF Stale(p) THEN "OwnersChanged"
                ELSE IF BelowThreshold(p) THEN "NotEnoughSigners"
                ELSE Dispatch(Chain, txs[p].instructions, 1, k, clock, f, 1).err
            /\ r.err # "Ok" => r.c = Chain

\* C8 witness: a Transaction that violates the eta, owners_seq_no and
\* threshold preconditions at once, beside an executed one that violates the
\* executed_at and owners_seq_no preconditions
C8_Witness ==
    \E p, q \in Txs, k \in Keys :
        /\ ~NotOwner(k)
        /\ BeforeEta(p) /\ Stale(p) /\ BelowThreshold(p)
        /\ ExecuteResult(k, p, 0) = "BeforeETA"
        /\ ExecutedAtSet(q) /\ Stale(q)
        /\ ExecuteResult(k, q, 0) = "AlreadyExecuted"

\* the call of execute_transaction by k on p passes the five preconditions
PassesChecks(k, p) == ExecuteChecks(multisig, txs[p], k, clock) = "Ok"

\* C9: when the dispatch of an instruction fails in execute_transaction, the
\* call fails and leaves everything as it was: executed_at and executor are
\* not written, nothing an earlier instruction of the batch wrote is kept,
\* no dispatch is recorded, and the same call succeeds once the host lets the
\* external program succeed.
C9_FailedDispatchIsAtomic ==
    \A p \in Txs, k \in Keys :
        PassesChecks(k, p) =>
            \A f \in HostFailures :
                LET r == execute_transaction(Chain, p, k, clock, f, 1)
                IN  r.err = "ExternalError" =>
                        /\ r.c.ms = multisig
                        /\ r.c.txs = txs
                        /\ r.c.dispatched = dispatched
                        /\ r.c.txs[p].executed_at = 0
                        /\ ExecuteResult(k, p, 0) = "Ok"

\* C9 witness: a Transaction that passes the checks under a threshold of 2,
\* whose first instruction lowers the threshold to 1 and whose second,
\* external, instruction the host fails: the call returns the external error
C9_Witness ==
    \E p \in Txs, k \in Keys :
        /\ txs[p].instructions = <<ChangeThresholdIx(1), ExtIx>>
        /\ multisig.threshold = 2
        /\ PassesChecks(k, p)
        /\ ExecuteResult(k, p, 2) = "ExternalError"
        /\ ExecuteResult(k, p, 0) = "Ok"

\* C10: execute_transaction by an owner on a Transaction that was executed
\* returns AlreadyExecuted and changes nothing, however often it is called.
C10_ExecutedStaysExecuted ==
    \A p \in Txs, k \in Keys, f \in HostFailures :
        LET r == execute_transaction(Chain, p, k, clock, f, 1)
        IN  dispatched[p] > 0 /\ ~NotOwner(k) =>
                /\ r.err = "AlreadyExecuted"
                /\ r.c = Chain

\* the Transaction account that a successful create_transaction returning r
\* has just initialised
NewTx(r) == r.c.txs[Len(r.c.txs)]

\* instructions of a batch that call set_owners
SetOwnersCount(instructions) ==
    Cardinality({ i \in 1..Len(instructions) : instructions[i].kind = "set_owners" })

\* C11: owners_seq_no is 0 when create_multisig returns; every successful
\* set_owners returns it increased by exactly 1, also when the new list is
\* the old one; change_threshold, change_delay, create_transaction and
\* approve return it as it was; execute_transaction changes it only through
\* the set_owners calls of the batch it dispatches, by 1 for each; and no
\* step decreases it.
C11_OwnersSeqNoCountsSetOwners ==
    /\ [](/\ ~multisig.exists =>
                \A l \in GovOwnerLists, t \in GovThresholds, d \in GovDelays :
                    create_multisig(Chain, l, t, d).c.ms.owners_seq_no = 0
          /\ multisig.exists =>
                /\ \A l \in GovNewOwnerLists :
                      LET r == set_owners(Chain, l)
                      IN  r.c.ms.owners_seq_no =
                            IF r.err = "Ok" THEN multisig.owners_seq_no + 1
                            ELSE multisig.owners_seq_no
                /\ \A t \in GovThresholds :
                      change_threshold(Chain, t).c.ms.owners_seq_no
                          = multisig.owners_seq_no
                /\ \A d \in GovNewDelays :
                      change_delay(Chain, d).c.ms.owners_seq_no
                          = multisig.owners_seq_no
                /\ \A k \in Keys, b \in GovBatches :
                      create_transaction(Chain, k, b, clock).c.ms.owners_seq_no
                          = multisig.owners_seq_no
                /\ \A k \in Keys, p \in Txs :
                      /\ approve(Chain, p, k).c.ms.owners_seq_no
                            = multisig.owners_seq_no
                      /\ LET r == execute_transaction(Chain, p, k, clock, 0, 1)
                         IN  r.c.ms.owners_seq_no =
                               IF r.err = "Ok"
                               THEN multisig.owners_seq_no
                                        + SetOwnersCount(txs[p].instructions)
                               ELSE multisig.owners_seq_no)
    /\ [][multisig'.owners_seq_no >= multisig.owners_seq_no]_vars

\* C11 witness: a Transaction was executed whose set_owners carried the list
\* the multisig already had, and owners_seq_no is one more than it was
C11_Witness ==
    \E p \in Txs :
        /\ dispatched[p] = 1
        /\ txs[p].instructions = <<SetOwnersIx(<<"A", "B">>)>>
        /\ execInfo[p].owners = <<"A", "B">>
        /\ multisig.owners = <<"A", "B">>
        /\ multisig.owners_seq_no = execInfo[p].ms_seq_no + 1

\* C12: the delay of an existing multisig is between 0 and MAX_DELAY,
\* whatever create_multisig and change_delay were given, so the eta of every
\* Transaction created is between its creation time and MAX_DELAY later.
C12_DelayWithinRange ==
    multisig.exists =>
        /\ multisig.delay >= 0
        /\ multisig.delay <= MAX_DELAY
        /\ \A k \in Range(multisig.owners), b \in GovBatches :
              LET r == create_transaction(Chain, k, b, clock)
              IN  r.err = "Ok" =>
                    /\ NewTx(r).eta >= clock
                    /\ NewTx(r).eta <= clock + MAX_DELAY

\* C13: on a Transaction that is not executed, not stale and has enough
\* true signers, execute_transaction by an owner returns BeforeETA and
\* changes nothing at every time before tx.eta; at tx.eta and at every later
\* time it passes the checks and returns what the dispatch of the
\* instructions returns, Ok for an external instruction the host performs;
\* and no step, a change_delay included, moves the eta of a Transaction.
C13_TimelockBoundary ==
    /\ [](\A p \in Txs, k \in Keys :
            ~NotOwner(k) /\ ~ExecutedAtSet(p) /\ ~Stale(p) /\ ~BelowThreshold(p) =>
                LET r == execute_transaction(Chain, p, k, clock, 0, 1)
                IN  IF clock < txs[p].eta
                    THEN r.err = "BeforeETA" /\ r.c = Chain
                    ELSE /\ r.err = Dispatch(Chain, txs[p].instructions, 1,
                                             k, clock, 0, 1).err
                         /\ r.err # "BeforeETA"
                         /\ txs[p].instructions = <<ExtIx>> => r.err = "Ok")
    /\ [][\A p \in Txs : txs'[p].eta = txs[p].eta]_vars

\* C13 witness: a Transaction created at time 0 under a delay of 1, whose
\* multisig has been given another delay since; at time 1, its eta, execute
\* by an owner returns Ok, and the same call at time 0 returns BeforeETA
C13_Witness ==
    \E p \in Txs, k \in Keys :
        /\ txs[p].eta = 1
        /\ clock = 1
        /\ multisig.delay = -1
        /\ execInfo[p].set = FALSE
        /\ ExecuteResult(k, p, 0) = "Ok"
        /\ execute_transaction(Chain, p, k, clock - 1, 0, 1).err = "BeforeETA"

\* C14: on a Transaction that is not executed, not stale and past its eta,
\* execute_transaction by an owner returns NotEnoughSigners and changes
\* nothing while fewer signers are true than the threshold; the refusal
\* leaves the Transaction open: every owner can still approve, and once the
\* true signers reach the threshold execute_transaction by any owner,
\* whether that owner approved or not, passes the checks, and where the
\* dispatch succeeds writes executed_at = now and executor = the caller and
\* records one dispatch.
C14_QuorumGate ==
    \A p \in Txs, k \in Keys :
        ~NotOwner(k) /\ ~BeforeEta(p) /\ ~ExecutedAtSet(p) /\ ~Stale(p) =>
            LET r == execute_transaction(Chain, p, k, clock, 0, 1)
            IN  IF BelowThreshold(p)
                THEN /\ r.err = "NotEnoughSigners"
                     /\ r.c = Chain
                     /\ \A k2 \in Range(multisig.owners) :
                          LET a == approve(Chain, p, k2)
                          IN  /\ a.err = "Ok"
                              /\ SigCount(a.c.txs[p].signers) >= multisig.threshold =>
                                    execute_transaction(a.c, p, k, clock, 0, 1).err
                                        = Dispatch(a.c, txs[p].instructions, 1,
                                                   k, clock, 0, 1).err
                ELSE /\ r.err = Dispatch(Chain, txs[p].instructions, 1,
                                         k, clock, 0, 1).err
                     /\ txs[p].instructions = <<ExtIx>> => r.err = "Ok"
                     /\ r.err = "Ok" =>
                          /\ r.c.txs[p].executed_at = clock
                          /\ r.c.txs[p].executor = k
                          /\ dispatched[p] = 0 => r.c.dispatched[p] = 1

\* C14 witness: under a threshold of 2 a Transaction with one true signer,
\* on which execute_transaction returns NotEnoughSigners, and returns Ok
\* once the other owner has approved
C14_Witness ==
    \E p \in Txs, k \in Keys, k2 \in Keys :
        /\ multisig.threshold = 2
        /\ SigCount(txs[p].signers) = 1
        /\ ExecuteResult(k, p, 0) = "NotEnoughSigners"
        /\ LET a == approve(Chain, p, k2)
           IN  /\ a.err = "Ok"
               /\ SigCount(a.c.txs[p].signers) = 2
               /\ execute_transaction(a.c, p, k, clock, 0, 1).err = "Ok"

C16_CreateTransactionInitialises ==
    multisig.exists =>
        \A k \in Keys, b \in GovBatches :
            LET r == create_transaction(Chain, k, b, clock)
            IN  IF NotOwner(k)
                THEN r.err = "InvalidOwner" /\ r.c = Chain
                ELSE /\ r.err = "Ok"
                     /\ Len(r.c.txs) = Len(txs) + 1
                     /\ \A p \in Txs : r.c.txs[p] = txs[p]
                     /\ r.c.ms = [multisig EXCEPT !.num_transactions = @ + 1]
                     /\ Len(NewTx(r).signers) = Len(multisig.owners)
                     /\ \A i \in 1..Len(multisig.owners) :
                            NewTx(r).signers[i] <=> multisig.owners[i] = k
                     /\ SigCount(NewTx(r).signers) = 1
                     /\ NewTx(r).eta = clock + multisig.delay
                     /\ NewTx(r).owners_seq_no = multisig.owners_seq_no
                     /\ NewTx(r).proposer = k
                     /\ NewTx(r).instructions = b
                     /\ NewTx(r).executor = NoKey
                     /\ NewTx(r).executed_at = 0

\* C16 witness: the second Transaction, created at time 1 under a delay of 1
\* by B, the second of two owners since set_owners ran
C16_Witness ==
    /\ Len(txs) = 2
    /\ multisig.num_transactions = 2
    /\ multisig.delay = 1
    /\ txs[2].proposer = "B"
    /\ multisig.owners = <<"A", "B">>
    /\ txs[2].signers = <<FALSE, TRUE>>
    /\ txs[2].eta = 2
    /\ txs[2].owners_seq_no = 1
    /\ txs[2].executor = NoKey
    /\ txs[2].executed_at = 0
    /\ create_transaction(Chain, "B", <<ExtIx>>, clock).err = "Ok"

\* a key stands at two positions of the list
HasDuplicates(owners) ==
    \E i, j \in 1..Len(owners) : i # j /\ owners[i] = owners[j]

Min(a, b) == IF a < b THEN a ELSE b

\* owner lists the handlers are applied to in every state
AllOwnerLists == GovOwnerLists \cup GovNewOwnerLists \cup { <<"A", "B", "A">> }

\* C17: a successful set_owners returns the multisig with the list given as
\* its owners, with the smaller of the old threshold and the length of the
\* list as its threshold, and with delay, grace_period and num_transactions
\* as they were; set_owners fails for a list with a repeated key only, never
\* because of the threshold; and every step that changes the owners leaves
\* the threshold at the smaller of its old value and the new length.
C17_SetOwnersClampsThreshold ==
    /\ [](multisig.exists =>
            \A l \in AllOwnerLists :
                LET r == set_owners(Chain, l)
                IN  /\ r.err = "Ok" =>
                          /\ r.c.ms.owners = l
                          /\ r.c.ms.threshold = Min(multisig.threshold, Len(l))
                          /\ r.c.ms.threshold <= Len(l)
                          /\ r.c.ms.delay = multisig.delay
                          /\ r.c.ms.grace_period = multisig.grace_period
                          /\ r.c.ms.num_transactions = multisig.num_transactions
                    /\ r.err # "Ok" => r.err = "UniqueOwners" /\ HasDuplicates(l))
    /\ [][multisig.exists /\ multisig'.owners # multisig.owners =>
            /\ multisig'.threshold
                  = Min(multisig.threshold, Len(multisig'.owners))
            /\ multisig'.delay = multisig.delay
            /\ multisig'.num_transactions = multisig.num_transactions]_vars

\* C17 witness: a Transaction executed under owners A, B and a threshold of
\* 2 set the owners to the one key B, and the threshold is 1
C17_Witness ==
    \E p \in Txs :
        /\ dispatched[p] = 1
        /\ txs[p].instructions = <<SetOwnersIx(<<"B">>)>>
        /\ execInfo[p].owners = <<"A", "B">>
        /\ execInfo[p].threshold = 2
        /\ multisig.owners = <<"B">>
        /\ multisig.threshold = 1
        /\ multisig.owners_seq_no = 1

C19_SignersFollowOwners ==
    /\ [](\A p \in Txs :
            ~Stale(p) =>
                /\ Len(txs[p].signers) = Len(multisig.owners)
                /\ \A i \in 1..Len(txs[p].signers) :
                        txs[p].signers[i] => multisig.owners[i] \in approvers[p]
                /\ \A k \in Keys :
                        /\ ApproveResult(k, p) # "IndexOutOfBounds"
                        /\ ApproveResult(k, p) = "Ok" =>
                                Position(multisig.owners, k) \in 1..Len(txs[p].signers))
    /\ [][\A p \in Txs :
            multisig'.owners_seq_no = txs'[p].owners_seq_no =>
                multisig'.owners = multisig.owners]_vars

\* C19 witness: the owners were changed from the one key A to B, A; the
\* Transaction that did it is stale and has one signer entry; a Transaction
\* created since has two entries, both true, approved by B and by A
C19_Witness ==
    \E p, q \in Txs :
        /\ multisig.owners = <<"B", "A">>
        /\ Stale(q)
        /\ Len(txs[q].signers) = 1
        /\ ~Stale(p)
        /\ txs[p].signers = <<TRUE, TRUE>>
        /\ approvers[p] = {"A", "B"}
        /\ ApproveResult("A", p) = "Ok"

\* C20: for every instruction vector and every owner of the multisig,
\* transaction_space is at least the length of the serialized Transaction
\* that create_transaction leaves, so the call does not fail for lack of
\* space in the account.
C20_SpaceCoversTransaction ==
    multisig.exists =>
        \A k \in Range(multisig.owners), b \in SizedBatches :
            LET r == create_transaction(Chain, k, b, clock)
            IN  /\ r.err = "Ok"
                /\ transaction_space(b) >= TransactionLen(NewTx(r))
                /\ create_transaction_account(Chain, k, b, clock).err = "Ok"

====
